---- MODULE Spec2Model ----
(***************************************************************************)
(* Request/response correlation layer of the MetaTrader 4 client           *)
(* (src/mt4client/client.py, class MT4Client): the single-slot mailbox     *)
(* _latest_response, the caller's _get_response, the background thread     *)
(* _poll_for_responses and shutdown(); with them order_send, symbols() and *)
(* signals() of the same class, parse_timeframe                            *)
(* (src/mt4client/api/chart.py), and the poller of the older connector     *)
(* (src/mt4_client_connector.py), which sleeps before each poll.           *)
(*                                                                         *)
(* Time: one tick is the unit in which response_timeout,                   *)
(* response_poll_delay and SOCKET_POLL_TIMEOUT are expressed.  Statements  *)
(* other than sleep() and socket.poll() take no time; sleep(d) takes       *)
(* exactly d.  Each caller carries its own clock, the time it has spent    *)
(* in its blocking operations since its mailbox clear.                     *)
(***************************************************************************)
EXTENDS Integers, Sequences, FiniteSets, TLC

\* ------------------------------------------------------------------ bounds
\* number of _get_response calls a run makes
MaxCalls == 2
\* number of messages the peer pushes in a run
MaxMsgs == 3
\* response_timeout is drawn from 1..MaxTimeout
MaxTimeout == 2
\* response_poll_delay is drawn from 1..MaxDelay
MaxDelay == 2

\* the strings given to parse_timeframe have at most MaxLen characters
MaxLen == 3
\* symbols() and signals() are given at most MaxNames names
MaxNames == 2

\* MT4Client.SOCKET_POLL_TIMEOUT, in ticks
SOCKET_POLL_TIMEOUT == 1
\* zmq.RCVHWM set on the pull socket
RCVHWM == 1
\* the default of socket_poll_interval in src/mt4_client_connector.py
SOCKET_POLL_INTERVAL == 1

\* no caller clock passes this value (the wait loop ends well before it)
ClockCap == SOCKET_POLL_TIMEOUT + MaxTimeout + 2 * MaxDelay

\* ------------------------------------------------------------------ values
\* Python None and a key that is missing from a dict
PyNone == "None"
Absent == "absent"

\* the caller threads; "c2" runs only when calls are allowed to overlap
Callers == {"c1", "c2"}

\* the empty mailbox (self._latest_response = None)
NoResponse == [kind |-> "None"]

\* what the peer can put on the wire
\*   garbage: bytes that are not JSON; null, scalar, list: JSON that is not
\*   an object; object: a JSON object with the envelope's keys
NonObjects ==
  { [kind |-> k] : k \in {"garbage", "null", "scalar", "list"} }

AllObjects ==
  [ kind : {"object"},
    error_code : {Absent, PyNone, "131"},
    error_code_description : {Absent, PyNone, "desc"},
    error_message : {Absent, PyNone, "Invalid price"},
    warning : {Absent, "low margin"},
    warnings : {Absent, "[w1, w2]"},
    response : {Absent, PyNone, "payload"} ]

EnvelopeKeys ==
  {"error_code", "error_code_description", "error_message", "warning",
   "warnings", "response"}

PresentKeys(o) == { k \in EnvelopeKeys : o[k] # Absent }

\* every message the model knows
Bodies == NonObjects \cup AllObjects

\* the reply {"response": "payload"}
Reply ==
  [kind |-> "object", error_code |-> Absent, error_code_description |-> Absent,
   error_message |-> Absent, warning |-> Absent, warnings |-> Absent,
   response |-> "payload"]

\* the reply {"error_code": "131", "error_code_description": "desc",
\* "error_message": "Invalid price"}
ErrorReply ==
  [kind |-> "object", error_code |-> "131", error_code_description |-> "desc",
   error_message |-> "Invalid price", warning |-> Absent, warnings |-> Absent,
   response |-> Absent]

\* the messages of the runs in which a call follows a failed call
RetryBodies == { Reply, ErrorReply }

\* the messages of the runs that explore the interleavings: a reply, JSON
\* null and bytes that are not JSON
CoreBodies == { Reply, [kind |-> "null"], [kind |-> "garbage"] }

\* the (timeout_message, default) arguments of a call: the defaults of
\* _get_response, and a call that passes both
CallArgs ==
  { [timeout_message |-> "Timed out.", default |-> PyNone],
    [timeout_message |-> "Failed to fetch account", default |-> "dflt"] }

\* ------------------------------------------------------------------ state
VARIABLES
  latest_response,   \* self._latest_response: NoResponse or a stored message
  is_running,        \* self._is_running
  context,           \* self._context and its sockets: "open" or "destroyed"
  response_timeout,  \* self._response_timeout
  response_poll_delay, \* self._response_poll_delay
  pullQueue,         \* messages waiting at the pull socket
  peerRequests,      \* requests delivered to the peer through the push socket
  rpc,               \* the poller thread's position in _poll_for_responses
  spc,               \* position of the thread running shutdown()
  pc,                \* each caller's position in _get_response
  request,           \* each caller's request (its call number)
  timeout_message,   \* each caller's timeout_message argument
  default,           \* each caller's default argument
  start,             \* each caller's local start
  resp,              \* each caller's local resp
  outcome,           \* how each caller's call ended
  clock,             \* each caller's time since its mailbox clear
  overlap,           \* whether two callers may be inside _get_response at once
  callBudget,        \* the number of calls the application makes
  msgBudget,         \* the number of messages the peer pushes
  wire,              \* the messages the peer chooses from: "core", "retry"
                     \* or "all"
  ncalls,            \* history: calls started
  nmsgs,             \* history: messages the peer has pushed
  nstores,           \* history: messages stored in the mailbox so far
  clearMark,         \* history: nstores at each caller's mailbox clear
  checkMark,         \* history: nstores at each caller's latest test of line 318
  prevMark,          \* history: nstores at the test of line 318 before that
  sleep_delay,       \* self._sleep_delay of the connector whose poller sleeps
                     \* (src/mt4_client_connector.py); 0 for MT4Client, whose
                     \* poller has no sleep
  rclock,            \* history: time the poller has spent blocked or asleep
                     \* since shutdown() cleared _is_running and until it
                     \* tests the flag
  sendResult,        \* history: how each caller's _send_object went
  sends,             \* history: the send_json calls each caller's call has made
  lag,               \* history: the time each caller has slept, in the wait
                     \* it is in, with a message in the mailbox; 0 once
                     \* the call has timed out or has read the mailbox
  consumed,          \* history: the seq of every message a call has read
  prevError,         \* history: seq of the message for which each caller's
                     \* previous call raised MT4Error, 0 when it did not
  order,             \* the (order_type, price) arguments of each caller's
                     \* order_send, NoOrder in the calls of other operations
  timeframe,         \* the argument of parse_timeframe
  parsed,            \* what parse_timeframe(timeframe) returned or raised
  names,             \* the *names argument of symbols() and signals()
  info,              \* what _get_response returned to symbols() or signals()
  mapping            \* what symbols() or signals() returned or raised

vars ==
  << latest_response, is_running, context, response_timeout, response_poll_delay,
     pullQueue, peerRequests, rpc, spc, pc, request, timeout_message, default,
     start, resp, outcome, clock, overlap, callBudget, msgBudget, wire, ncalls,
     nmsgs, nstores, clearMark, checkMark, prevMark, sleep_delay, rclock,
     sendResult, sends, lag, consumed, prevError, order, timeframe, parsed,
     names, info, mapping >>

\* the variables of the operations that do not touch the mailbox
apiVars == << timeframe, parsed, names, info, mapping >>

NoOutcome ==
  [kind |-> "none", value |-> PyNone, code |-> PyNone, description |-> PyNone,
   message |-> PyNone, printed |-> PyNone]

\* the messages the peer chooses from in this run
WireBodies ==
  IF wire = "all" THEN Bodies
  ELSE IF wire = "retry" THEN RetryBodies
  ELSE CoreBodies

\* ------------------------------------------------------------------ helpers
\* dict.get(key): None for a missing key
Get(d, key) == IF d[key] = Absent THEN PyNone ELSE d[key]

\* dict.get(key, dflt)
GetOr(d, key, dflt) == IF d[key] = Absent THEN dflt ELSE d[key]

\* whether a Python value has a .get method (is a dict)
IsDict(m) == m.kind = "msg" /\ m.body.kind = "object"

\* the test of line 330: some error field of the envelope is not None
HasErrorCodeOnly(r) == Get(r, "error_code") # PyNone
HasError(r) ==
  ~ ( Get(r, "error_code") = PyNone
      /\ Get(r, "error_code_description") = PyNone
      /\ Get(r, "error_message") = PyNone )

\* raise MT4Error(error_code, error_code_description, error_message)
MT4Error(r) ==
  [kind |-> "MT4Error", value |-> PyNone, code |-> Get(r, "error_code"),
   description |-> Get(r, "error_code_description"),
   message |-> Get(r, "error_message"), printed |-> PyNone]

\* lines 334-339: print the warning, return resp.get("response", default)
UnwrapOrDefault(r, dflt) ==
  IF Get(r, "response") = PyNone THEN dflt ELSE r["response"]
Unwrap(r, dflt) == GetOr(r, "response", dflt)

Returned(r, dflt) ==
  [kind |-> "return", value |-> Unwrap(r, dflt), code |-> PyNone,
   description |-> PyNone, message |-> PyNone, printed |-> Get(r, "warning")]

Raised(kind, message) ==
  [kind |-> kind, value |-> PyNone, code |-> PyNone, description |-> PyNone,
   message |-> message, printed |-> PyNone]

\* lines 326-339 applied to the value read from the mailbox: a value without
\* .get (None, a list, a scalar) raises AttributeError at line 327
DecodeSubscript(m, dflt) ==
  IF ~IsDict(m) THEN Raised("AttributeError", PyNone)
  ELSE IF HasError(m.body) THEN MT4Error(m.body)
  ELSE IF m.body.response = Absent THEN Raised("KeyError", PyNone)
  ELSE Returned(m.body, dflt)
Decode(m, dflt) ==
  IF ~IsDict(m) THEN Raised("AttributeError", PyNone)
  ELSE IF HasError(m.body) THEN MT4Error(m.body)
  ELSE Returned(m.body, dflt)

\* line 320: (time() - start) > self._response_timeout
DeadlineDoubled(elapsed, timeout) == elapsed > 2 * timeout
DeadlineInMillis(elapsed, timeout) == elapsed * 1000 > timeout
DeadlineSwapped(elapsed, timeout) == (0 - elapsed) > timeout
DeadlinePassed(elapsed, timeout) == elapsed > timeout

\* line 317: start = time(), read after _send_object has returned
StartBeforeSend(atClear, afterSend) == atClear
StartOfWait(atClear, afterSend) == afterSend

\* line 313: self._latest_response = None
NotCleared(old) == old
Cleared(old) == NoResponse

\* line 323: raise TimeoutError(timeout_message)
TimeoutErrorDefaultMessage(message) == Raised("TimeoutError", "Timed out.")
TimeoutError(message) == Raised("TimeoutError", message)

\* line 362: self._latest_response = response
KeepUnclaimed(old, new) == IF old = NoResponse THEN new ELSE old
Store(old, new) == new

\* line 326: resp = self._latest_response leaves the mailbox as it is
TakenAndCleared(slot) == NoResponse
Taken(slot) == slot

\* lines 349-352: whether _send_object raises when send_json has ended with
\* `result`; the ZMQError of send_json is caught and printed
SendRaisesZMQError(result) == result = "ZMQError"
SendRaises(result) == FALSE

\* src/mt4_client_connector.py line 28:
\* self._sleep_delay = float(socket_poll_interval) * 1000.0, which line 73
\* passes to sleep(), whose unit is the second; a tick is one second, as
\* SOCKET_POLL_TIMEOUT, 1000 ms, is one tick
SleepDelay(socket_poll_interval) == socket_poll_interval * 1000

\* line 318: while self._latest_response is None
WaitIgnoresSlot(slot) == TRUE
WaitGoesOn(slot) == slot = NoResponse

\* line 322: if self._latest_response is None, after `elapsed` of the wait
TimedOutByClock(slot, elapsed, timeout) == elapsed > timeout
TimedOut(slot, elapsed, timeout) == slot = NoResponse

\* line 360: if response is not None, for the value recv_json decoded
NeverNone(body) == FALSE
IsNone(body) == body.kind = "null"

\* lines 327-339 read the local resp, not self._latest_response
Reread(local, slot) == slot
Snapshot(local, slot) == local

\* lines 314-318: once _send_object has returned, whatever came of the send,
\* the call goes on to its wait
ResendOnFailure(result) == IF result = "sent" THEN "loop" ELSE "send"
AfterSend(result) == "loop"

\* line 57: self._response_poller.join() returns once the thread has ended
NoJoin == TRUE
PollerJoined == rpc \in {"stopped", "crashed"}

\* ------------------------------------------------------------------ orders
\* src/mt4client/api/order.py: the members of OrderType
OrderType ==
  {"OP_BUY", "OP_SELL", "OP_BUYLIMIT", "OP_BUYSTOP", "OP_SELLLIMIT",
   "OP_SELLSTOP", "OP_BALANCE", "OP_CREDIT", "OP_REBATE"}

\* the price argument of order_send: its default None, or a price
Prices == {PyNone, "1.1"}

\* the caller's operation is not order_send
NoOrder == [order_type |-> PyNone, price |-> PyNone]

is_buy(t) == t = "OP_BUY" \/ t = "OP_BUYLIMIT" \/ t = "OP_BUYSTOP"

is_sell(t) == t = "OP_SELL" \/ t = "OP_SELLLIMIT" \/ t = "OP_SELLSTOP"

is_pending_limit(t) == t = "OP_BUYLIMIT" \/ t = "OP_SELLLIMIT"
is_pending(t) ==
  \/ t = "OP_BUYLIMIT" \/ t = "OP_BUYSTOP"
  \/ t = "OP_SELLLIMIT" \/ t = "OP_SELLSTOP"

\* OrderType.__str__
OrderTypeStr(t) ==
  CASE t = "OP_BUY" -> "MARKET-BUY"
    [] t = "OP_SELL" -> "MARKET-SELL"
    [] t = "OP_BUYLIMIT" -> "LIMIT-BUY"
    [] t = "OP_BUYSTOP" -> "STOP-BUY"
    [] t = "OP_SELLLIMIT" -> "LIMIT-SELL"
    [] t = "OP_SELLSTOP" -> "STOP-SELL"
    [] t = "OP_BALANCE" -> "BALANCE"
    [] t = "OP_CREDIT" -> "CREDIT"
    [] t = "OP_REBATE" -> "REBATE"
    [] OTHER -> "UNKNOWN"

\* lines 221-224 of order_send: the message of the ValueError raised for
\* (order_type, price), None when none is raised
OrderSendError(t, p) ==
  IF ~is_buy(t) /\ ~is_sell(t)
  THEN "Invalid order type: " \o OrderTypeStr(t)
  ELSE IF is_pending(t) /\ p = PyNone
  THEN "Pending orders must specify a price"
  ELSE PyNone

\* ------------------------------------------------------------------ chart
\* src/mt4client/api/chart.py.  A string is a sequence of characters.
Chars == {"0", "1", "5", "m", "M", "h", "d", "n", "x"}

TimeframeStrings == UNION { [1..n -> Chars] : n \in 0..MaxLen }

\* \d, and [mhdwn] under re.IGNORECASE
Digits == {"0", "1", "2", "3", "4", "5", "6", "7", "8", "9"}
UnitChars == {"m", "h", "d", "w", "n", "M", "H", "D", "W", "N"}

\* str.upper of one character
Upper(ch) ==
  CASE ch = "m" -> "M"
    [] ch = "h" -> "H"
    [] ch = "d" -> "D"
    [] ch = "w" -> "W"
    [] ch = "n" -> "N"
    [] OTHER -> ch

UpperStr(str) == [i \in 1..Len(str) |-> Upper(str[i])]

\* the characters of a sequence as one string
RECURSIVE Str(_)
Str(str) == IF Len(str) = 0 THEN "" ELSE str[1] \o Str(Tail(str))

\* the member names of the two enums
StandardTimeframe ==
  {"PERIOD_CURRENT", "PERIOD_M1", "PERIOD_M5", "PERIOD_M15", "PERIOD_M30",
   "PERIOD_H1", "PERIOD_H4", "PERIOD_D1", "PERIOD_W1", "PERIOD_MN1"}

NonStandardTimeframe ==
  {"PERIOD_M2", "PERIOD_M3", "PERIOD_M4", "PERIOD_M6", "PERIOD_M10",
   "PERIOD_M12", "PERIOD_M20", "PERIOD_H2", "PERIOD_H3", "PERIOD_H6",
   "PERIOD_H8", "PERIOD_H12"}

\* the length of the longest prefix of str made of characters of set
PrefixLen(str, set) ==
  LET other == { i \in 1..Len(str) : str[i] \notin set }
  IN  IF other = {} THEN Len(str)
      ELSE (CHOOSE i \in other : \A j \in other : i <= j) - 1

\* re.compile(r"(\d+)([mhdwn]+)", re.IGNORECASE).match(str): the pattern is
\* matched at the start of str and need not reach its end; both groups are
\* greedy, and what a group leaves is no character of its class
Match(str) ==
  LET d == PrefixLen(str, Digits)
      rest == SubSeq(str, d + 1, Len(str))
      u == PrefixLen(rest, UnitChars)
  IN  [matched |-> d > 0 /\ u > 0,
       group1 |-> SubSeq(str, 1, d),
       group2 |-> SubSeq(rest, 1, u)]

\* parse_timeframe has not been called; symbols()/signals() neither
NotCalled == [kind |-> "not called"]

Member(enum, name) == [kind |-> "return", enum |-> enum, name |-> name]

\* lines 75-96
parse_timeframe(str) ==
  IF str = << "0" >> THEN Member("StandardTimeframe", "PERIOD_CURRENT")
  ELSE LET m == Match(str)
           name == "PERIOD_" \o Str(UpperStr(m.group2)) \o Str(m.group1)
       IN  IF m.matched /\ name \in StandardTimeframe
           THEN Member("StandardTimeframe", name)
           ELSE IF m.matched /\ name \in NonStandardTimeframe
           THEN Member("NonStandardTimeframe", name)
           ELSE [kind |-> "ValueError",
                 message |-> "Invalid timeframe: " \o Str(str)]

\* ------------------------------------------------------------------ symbols
\* the names symbols() and signals() are called with
SymbolNames == {"EURUSD", "GBPUSD", "USDJPY"}

NameLists == UNION { [1..n -> SymbolNames] : n \in 0..MaxNames }

\* the entry the response holds for a name: a dict of the keyword arguments
\* of Symbol or Signal, or a dict that lacks one of them
Entries == {"e1", "e2", "incomplete"}

\* what _get_response returns to symbols() and signals(): None, or a dict
\* from names to entries
NoInfo == [kind |-> "None"]

Infos ==
  {NoInfo} \cup
  { [kind |-> "dict", items |-> f] :
      f \in UNION { [S -> Entries] : S \in SUBSET SymbolNames } }

\* resp[name]
EntryOfAny(response, name) ==
  response.items[CHOOSE k \in DOMAIN response.items : TRUE]
EntryOf(response, name) == response.items[name]

\* lines 93 and 129: {name: Class(**resp[name]) for name in names}.  The
\* first name that cannot be built ends the comprehension: TypeError when
\* resp is None or the entry lacks an argument, KeyError when resp has no
\* entry of that name.
Comprehension(class, ns, response) ==
  LET fails(i) ==
        \/ response.kind = "None"
        \/ ns[i] \notin DOMAIN response.items
        \/ EntryOf(response, ns[i]) = "incomplete"
      failing == { i \in 1..Len(ns) : fails(i) }
  IN  IF failing = {}
      THEN [kind |-> "return",
            value |-> [ n \in { ns[i] : i \in 1..Len(ns) } |->
                          [class |-> class, fields |-> EntryOf(response, n)] ]]
      ELSE LET i == CHOOSE k \in failing : \A j \in failing : k <= j
           IN  IF response.kind = "None" THEN [kind |-> "TypeError"]
               ELSE IF ns[i] \notin DOMAIN response.items
               THEN [kind |-> "KeyError"]
               ELSE [kind |-> "TypeError"]

\* ------------------------------------------------------------------ Init
InitClient(calls, msgs, bodies, timeouts, delays, ovl, sleep) ==
  /\ latest_response = NoResponse
  /\ is_running = TRUE
  /\ context = "open"
  /\ response_timeout \in timeouts
  /\ response_poll_delay \in delays
  /\ pullQueue = << >>
  /\ peerRequests = {}
  /\ rpc = "top"
  /\ spc = "idle"
  /\ pc = [c \in Callers |-> "idle"]
  /\ request = [c \in Callers |-> 0]
  /\ timeout_message = [c \in Callers |-> "Timed out."]
  /\ default = [c \in Callers |-> PyNone]
  /\ start = [c \in Callers |-> 0]
  /\ resp = [c \in Callers |-> NoResponse]
  /\ outcome = [c \in Callers |-> NoOutcome]
  /\ clock = [c \in Callers |-> 0]
  /\ overlap = ovl
  /\ callBudget = calls
  /\ msgBudget = msgs
  /\ wire = bodies
  /\ ncalls = 0
  /\ nmsgs = 0
  /\ nstores = 0
  /\ clearMark = [c \in Callers |-> 0]
  /\ checkMark = [c \in Callers |-> 0]
  /\ prevMark = [c \in Callers |-> 0]
  /\ sleep_delay = sleep
  /\ rclock = 0
  /\ sendResult = [c \in Callers |-> "none"]
  /\ sends = [c \in Callers |-> 0]
  /\ lag = [c \in Callers |-> 0]
  /\ consumed = {}
  /\ prevError = [c \in Callers |-> 0]
  /\ order = [c \in Callers |-> NoOrder]

\* parse_timeframe, symbols() and signals() are not called
ApiIdle ==
  /\ timeframe = << >>
  /\ parsed = NotCalled
  /\ names = << >>
  /\ info = NoInfo
  /\ mapping = NotCalled

\* MT4Client: the poller has no sleep
InitWith(calls, msgs, bodies, timeouts, delays, ovl) ==
  /\ InitClient(calls, msgs, bodies, timeouts, delays, ovl, 0)
  /\ ApiIdle

\* the runs that explore the interleavings of the caller, the poller, the
\* peer and shutdown(): response_timeout and response_poll_delay one tick
Init == InitWith(MaxCalls, MaxMsgs, "core", {1}, {1}, FALSE)

sharedUnchanged ==
  UNCHANGED << is_running, context, response_timeout, response_poll_delay,
               pullQueue, rpc, spc, overlap, callBudget, msgBudget, wire,
               nmsgs, nstores, sleep_delay, rclock, apiVars >>

\* ------------------------------------------------------------------ caller
\* _get_response(request, timeout_message, default) is entered;
\* line 313: self._latest_response = None
GetResponseEnter(c, message, dflt) ==
  /\ ncalls < callBudget
  /\ timeout_message' = [timeout_message EXCEPT ![c] = message]
  /\ default' = [default EXCEPT ![c] = dflt]
  /\ ncalls' = ncalls + 1
  /\ request' = [request EXCEPT ![c] = ncalls + 1]
  /\ latest_response' = Cleared(latest_response)
  /\ clearMark' = [clearMark EXCEPT ![c] = nstores]
  /\ checkMark' = [checkMark EXCEPT ![c] = nstores]
  /\ prevMark' = [prevMark EXCEPT ![c] = nstores]
  /\ clock' = [clock EXCEPT ![c] = 0]
  /\ start' = [start EXCEPT ![c] = 0]
  /\ resp' = [resp EXCEPT ![c] = NoResponse]
  /\ outcome' = [outcome EXCEPT ![c] = NoOutcome]
  /\ sendResult' = [sendResult EXCEPT ![c] = "none"]
  /\ sends' = [sends EXCEPT ![c] = 0]
  /\ lag' = [lag EXCEPT ![c] = 0]
  /\ prevError' = [prevError EXCEPT ![c] =
                     IF outcome[c].kind = "MT4Error" THEN resp[c].seq ELSE 0]
  /\ pc' = [pc EXCEPT ![c] = "send"]
  /\ UNCHANGED << peerRequests, consumed >>
  /\ sharedUnchanged

\* the thread of caller c is free to call an operation of the client
MayCall(c) ==
  /\ pc[c] \in {"idle", "done"}
  /\ c = "c1" \/ overlap
  /\ spc \in {"idle", "returned"}

\* an operation other than order_send calls _get_response
CallStart(c) ==
  /\ MayCall(c)
  /\ \E a \in CallArgs : GetResponseEnter(c, a.timeout_message, a.default)
  /\ order' = [order EXCEPT ![c] = NoOrder]

\* order_send(symbol, order_type, lots, price), lines 221-238: the two
\* checks raise ValueError; otherwise _get_response is called with
\* timeout_message "Failed to send order"
OrderSend(c) ==
  /\ MayCall(c)
  /\ \E t \in OrderType, p \in Prices :
       /\ order' = [order EXCEPT ![c] = [order_type |-> t, price |-> p]]
       /\ IF OrderSendError(t, p) # PyNone
          THEN /\ outcome' = [outcome EXCEPT ![c] =
                                Raised("ValueError", OrderSendError(t, p))]
               /\ pc' = [pc EXCEPT ![c] = "done"]
               /\ UNCHANGED << latest_response, peerRequests, request,
                               timeout_message, default, start, resp, clock,
                               ncalls, clearMark, checkMark, prevMark,
                               sendResult, sends, lag, consumed, prevError >>
               /\ sharedUnchanged
          ELSE GetResponseEnter(c, "Failed to send order", PyNone)

\* lines 314 and 317 with the push socket open: _send_object polls the push
\* socket for up to SOCKET_POLL_TIMEOUT; when it is writable after `waited`
\* ticks, send_json either hands the request over or raises ZMQError, which
\* is caught and printed; then start = time()
SendObject(c) ==
  /\ pc[c] = "send"
  /\ context = "open"
  /\ \E waited \in 0..SOCKET_POLL_TIMEOUT, result \in {"sent", "ZMQError"} :
       /\ sendResult' = [sendResult EXCEPT ![c] = result]
       /\ sends' = [sends EXCEPT ![c] = sends[c] + 1]
       /\ peerRequests' = IF result = "sent" THEN peerRequests \cup {request[c]}
                          ELSE peerRequests
       /\ IF SendRaises(result)
          THEN /\ outcome' = [outcome EXCEPT ![c] = Raised("ZMQError", PyNone)]
               /\ pc' = [pc EXCEPT ![c] = "done"]
               /\ UNCHANGED << clock, start >>
          ELSE /\ clock' = [clock EXCEPT ![c] = clock[c] + waited]
               /\ start' = [start EXCEPT ![c] =
                              StartOfWait(clock[c], clock[c] + waited)]
               /\ pc' = [pc EXCEPT ![c] = AfterSend(result)]
               /\ outcome' = outcome
  /\ UNCHANGED << latest_response, request, timeout_message, default, resp,
                  ncalls, clearMark, checkMark, prevMark, lag, consumed,
                  prevError, order >>
  /\ sharedUnchanged

\* line 347 with the push socket not writable for SOCKET_POLL_TIMEOUT: poll
\* returns 0, nothing is sent; then start = time()
SendNotWritable(c) ==
  /\ pc[c] = "send"
  /\ context = "open"
  /\ clock' = [clock EXCEPT ![c] = clock[c] + SOCKET_POLL_TIMEOUT]
  /\ start' = [start EXCEPT ![c] =
                 StartOfWait(clock[c], clock[c] + SOCKET_POLL_TIMEOUT)]
  /\ sendResult' = [sendResult EXCEPT ![c] = "not writable"]
  /\ pc' = [pc EXCEPT ![c] = AfterSend("not writable")]
  /\ UNCHANGED << latest_response, peerRequests, request, timeout_message,
                  default, resp, outcome, ncalls, clearMark,
                  checkMark, prevMark, sends, lag, consumed, prevError,
                  order >>
  /\ sharedUnchanged

\* line 347 after shutdown() has destroyed the context: polling a closed
\* socket raises ZMQError outside the try block, so it leaves _get_response
SendOnClosedSocket(c) ==
  /\ pc[c] = "send"
  /\ context = "destroyed"
  /\ outcome' = [outcome EXCEPT ![c] = Raised("ZMQError", PyNone)]
  /\ sendResult' = [sendResult EXCEPT ![c] = "closed"]
  /\ pc' = [pc EXCEPT ![c] = "done"]
  /\ UNCHANGED << latest_response, peerRequests, request, timeout_message,
                  default, start, resp, clock, ncalls, clearMark,
                  checkMark, prevMark, sends, lag, consumed, prevError,
                  order >>
  /\ sharedUnchanged

\* line 318: while self._latest_response is None
LoopTest(c) ==
  /\ pc[c] = "loop"
  /\ pc' = [pc EXCEPT ![c] =
              IF WaitGoesOn(latest_response) THEN "sleep" ELSE "check"]
  /\ checkMark' = [checkMark EXCEPT ![c] = nstores]
  /\ prevMark' = [prevMark EXCEPT ![c] = checkMark[c]]
  /\ UNCHANGED << latest_response, peerRequests, request, timeout_message,
                  default, start, resp, outcome, clock, ncalls, clearMark,
                  sendResult, sends, lag, consumed, prevError, order >>
  /\ sharedUnchanged

\* lines 319-321: sleep(delay); break when the deadline has passed.  A
\* message that is in the mailbox when the sleep ends has been there for the
\* whole sleep at most
Sleep(c) ==
  /\ pc[c] = "sleep"
  /\ clock[c] + response_poll_delay <= ClockCap
  /\ clock' = [clock EXCEPT ![c] = clock[c] + response_poll_delay]
  /\ lag' = [lag EXCEPT ![c] =
               IF latest_response = NoResponse THEN lag[c]
               ELSE lag[c] + response_poll_delay]
  /\ pc' = [pc EXCEPT ![c] =
              IF DeadlinePassed(clock'[c] - start[c], response_timeout)
              THEN "check" ELSE "loop"]
  /\ UNCHANGED << latest_response, peerRequests, request, timeout_message,
                  default, start, resp, outcome, ncalls, clearMark,
                  checkMark, prevMark, sendResult, sends, consumed, prevError,
                  order >>
  /\ sharedUnchanged

\* lines 322-323: if self._latest_response is None: raise TimeoutError; the
\* wait is over
FinalCheck(c) ==
  /\ pc[c] = "check"
  /\ IF TimedOut(latest_response, clock[c] - start[c], response_timeout)
     THEN /\ outcome' = [outcome EXCEPT ![c] = TimeoutError(timeout_message[c])]
          /\ pc' = [pc EXCEPT ![c] = "done"]
          /\ lag' = [lag EXCEPT ![c] = 0]
     ELSE /\ outcome' = outcome
          /\ pc' = [pc EXCEPT ![c] = "read"]
          /\ lag' = lag
  /\ UNCHANGED << latest_response, peerRequests, request, timeout_message,
                  default, start, resp, clock, ncalls, clearMark,
                  checkMark, prevMark, sendResult, sends, consumed,
                  prevError, order >>
  /\ sharedUnchanged

\* line 326: resp = self._latest_response; the mailbox is read, not written
ReadResponse(c) ==
  /\ pc[c] = "read"
  /\ resp' = [resp EXCEPT ![c] = latest_response]
  /\ latest_response' = Taken(latest_response)
  /\ consumed' = IF latest_response = NoResponse THEN consumed
                 ELSE consumed \cup {latest_response.seq}
  /\ pc' = [pc EXCEPT ![c] = "decode"]
  /\ lag' = [lag EXCEPT ![c] = 0]
  /\ UNCHANGED << peerRequests, request, timeout_message,
                  default, start, outcome, clock, ncalls, clearMark,
                  checkMark, prevMark, sendResult, sends, prevError,
                  order >>
  /\ sharedUnchanged

\* lines 327-339: raise the error, print the warning, return the response
DecodeResponse(c) ==
  /\ pc[c] = "decode"
  /\ outcome' = [outcome EXCEPT ![c] =
                    Decode(Snapshot(resp[c], latest_response), default[c])]
  /\ pc' = [pc EXCEPT ![c] = "done"]
  /\ UNCHANGED << latest_response, peerRequests, request, timeout_message,
                  default, start, resp, clock, ncalls, clearMark,
                  checkMark, prevMark, sendResult, sends, lag, consumed,
                  prevError, order >>
  /\ sharedUnchanged

callerUnchanged ==
  UNCHANGED << pc, request, timeout_message, default, start, resp, outcome,
               clock, ncalls, clearMark, checkMark, prevMark, response_timeout,
               response_poll_delay, overlap, callBudget, msgBudget, wire,
               sleep_delay, sendResult, sends, lag, consumed, prevError, order,
               apiVars >>

\* ------------------------------------------------------------------ poller
\* line 356: while self._is_running
PollerLoopTest ==
  /\ rpc = "top"
  /\ rpc' = IF is_running THEN "poll" ELSE "stopped"
  /\ rclock' = 0
  /\ UNCHANGED << latest_response, is_running, context, pullQueue,
                  peerRequests, spc, nmsgs, nstores >>
  /\ callerUnchanged

\* the thread may block once more: it has not yet been blocked, since
\* _is_running was cleared, for longer than two rounds of the loop
MayBlock == is_running \/ rclock <= sleep_delay + SOCKET_POLL_TIMEOUT

\* the time the thread has been blocked since _is_running was cleared,
\* after it has been blocked for `blocked` more
Blocked(blocked) == IF is_running THEN rclock ELSE rclock + blocked

\* line 357: poll returns 0 after SOCKET_POLL_TIMEOUT without a message; in
\* src/mt4_client_connector.py (lines 73-74) sleep(self._sleep_delay) comes
\* before the poll
PollerPollTimeout ==
  /\ rpc = "poll"
  /\ pullQueue = << >>
  /\ MayBlock
  /\ rclock' = Blocked(sleep_delay + SOCKET_POLL_TIMEOUT)
  /\ rpc' = "top"
  /\ UNCHANGED << latest_response, is_running, context, pullQueue,
                  peerRequests, spc, nmsgs, nstores >>
  /\ callerUnchanged

\* line 357: poll reports POLLIN, after the sleep of
\* src/mt4_client_connector.py and a wait of at most SOCKET_POLL_TIMEOUT
PollerPollReady ==
  /\ rpc = "poll"
  /\ pullQueue # << >>
  /\ MayBlock
  /\ \E waited \in 0..SOCKET_POLL_TIMEOUT :
       rclock' = Blocked(sleep_delay + waited)
  /\ rpc' = "recv"
  /\ UNCHANGED << latest_response, is_running, context, pullQueue,
                  peerRequests, spc, nmsgs, nstores >>
  /\ callerUnchanged

\* lines 359-362: recv_json takes the message and decodes it.  Bytes that are
\* not JSON make json.loads raise ValueError, which `except zmq.ZMQError`
\* does not catch: the thread ends.  JSON null decodes to None and is
\* ignored.  Any other value is stored in the mailbox.
PollerRecvJson ==
  /\ rpc = "recv"
  /\ pullQueue # << >>
  /\ LET m == Head(pullQueue) IN
       /\ pullQueue' = Tail(pullQueue)
       /\ IF m.body.kind = "garbage"
          THEN /\ rpc' = "crashed"
               /\ UNCHANGED << latest_response, nstores >>
          ELSE IF IsNone(m.body)
          THEN /\ rpc' = "top"
               /\ UNCHANGED << latest_response, nstores >>
          ELSE /\ rpc' = "top"
               /\ nstores' = nstores + 1
               /\ latest_response' =
                    Store(latest_response,
                          IF m.body.kind = "null" THEN NoResponse
                          ELSE [m EXCEPT
                                  !.seq = nstores + 1,
                                  !.during =
                                    { request[c] :
                                        c \in { d \in Callers :
                                                  pc[d] \notin
                                                    {"idle", "done"} } }])
  /\ UNCHANGED << is_running, context, peerRequests, spc, nmsgs, rclock >>
  /\ callerUnchanged

\* lines 363-364: recv_json raises ZMQError; it is printed and the loop goes on
PollerRecvError ==
  /\ rpc = "recv"
  /\ rpc' = "top"
  /\ UNCHANGED << latest_response, is_running, context, pullQueue,
                  peerRequests, spc, nmsgs, nstores, rclock >>
  /\ callerUnchanged

\* ------------------------------------------------------------------ peer
\* the terminal pushes a message, written as the answer to a request it has
\* received; the pull socket holds at most RCVHWM messages.  A message
\* carries two history fields, set when line 362 stores it: seq, its number
\* among the messages stored, and during, the requests of the calls then in
\* progress.  What the peer pushes once the context is destroyed stays on the
\* peer's side: the pull socket is closed
PeerSend ==
  /\ nmsgs < msgBudget
  /\ peerRequests # {}
  /\ IF context = "open"
     THEN /\ Len(pullQueue) < RCVHWM
          /\ \E r \in peerRequests, b \in WireBodies :
               pullQueue' = Append(pullQueue,
                              [kind |-> "msg", for |-> r, seq |-> 0,
                               during |-> {}, body |-> b])
     ELSE pullQueue' = pullQueue
  /\ nmsgs' = nmsgs + 1
  /\ UNCHANGED << latest_response, is_running, context, peerRequests, rpc,
                  spc, nstores, rclock >>
  /\ callerUnchanged

\* ------------------------------------------------------------------ shutdown
\* shutdown() runs on the application's thread, between calls
\* line 55: self._is_running = False
ShutdownStop ==
  /\ spc \in {"idle", "returned"}
  /\ \A c \in Callers : pc[c] \in {"idle", "done"}
  /\ is_running' = FALSE
  /\ spc' = "join"
  /\ UNCHANGED << latest_response, context, pullQueue, peerRequests, rpc,
                  nmsgs, nstores, rclock >>
  /\ callerUnchanged

\* lines 56-57: self._response_poller.join()
ShutdownJoin ==
  /\ spc = "join"
  /\ PollerJoined
  /\ spc' = "destroy"
  /\ UNCHANGED << latest_response, is_running, context, pullQueue,
                  peerRequests, rpc, nmsgs, nstores, rclock >>
  /\ callerUnchanged

\* line 60: self._context.destroy(0) closes both sockets and drops what they hold
ShutdownDestroy ==
  /\ spc = "destroy"
  /\ context' = "destroyed"
  /\ pullQueue' = << >>
  /\ spc' = "returned"
  /\ UNCHANGED << latest_response, is_running, peerRequests, rpc, nmsgs,
                  nstores, rclock >>
  /\ callerUnchanged

\* ------------------------------------------------------------------ Next
Next ==
  \/ \E c \in Callers : CallStart(c)
  \/ \E c \in Callers : SendObject(c)
  \/ \E c \in Callers : SendNotWritable(c)
  \/ \E c \in Callers : SendOnClosedSocket(c)
  \/ \E c \in Callers : LoopTest(c)
  \/ \E c \in Callers : Sleep(c)
  \/ \E c \in Callers : FinalCheck(c)
  \/ \E c \in Callers : ReadResponse(c)
  \/ \E c \in Callers : DecodeResponse(c)
  \/ PollerLoopTest
  \/ PollerPollTimeout
  \/ PollerPollReady
  \/ PollerRecvJson
  \/ PollerRecvError
  \/ PeerSend
  \/ ShutdownStop
  \/ ShutdownJoin
  \/ ShutdownDestroy

Spec == Init /\ [][Next]_vars

\* one call and one message, the peer choosing among all the messages
InitEnvelopes == InitWith(MaxCalls - 1, 1, "all", {1}, {1}, FALSE)

SpecEnvelopes == InitEnvelopes /\ [][Next]_vars

\* a thread inside _get_response keeps running
CallerStep(c) ==
  \/ SendObject(c)
  \/ SendNotWritable(c)
  \/ SendOnClosedSocket(c)
  \/ LoopTest(c)
  \/ Sleep(c)
  \/ FinalCheck(c)
  \/ ReadResponse(c)
  \/ DecodeResponse(c)

\* one call and one message, under every response_timeout and
\* response_poll_delay of the bounds
InitTiming ==
  InitWith(MaxCalls - 1, MaxMsgs - 2, "core", 1..MaxTimeout, 1..MaxDelay,
           FALSE)

SpecTiming ==
  InitTiming /\ [][Next]_vars /\ \A c \in Callers : WF_vars(CallerStep(c))

\* two calls, the second of which may follow a call that raised MT4Error
InitRetry == InitWith(MaxCalls, MaxMsgs - 1, "retry", {1}, {1}, FALSE)

SpecRetry == InitRetry /\ [][Next]_vars

\* two caller threads whose calls may overlap, and one message
InitOverlap == InitWith(MaxCalls, 1, "core", {1}, {1}, TRUE)

SpecOverlap == InitOverlap /\ [][Next]_vars

\* the connector of src/mt4_client_connector.py, built with the default
\* socket_poll_interval: its poller sleeps before each poll
InitConnector ==
  /\ InitClient(MaxCalls - 1, 1, "core", {1}, {1}, FALSE,
                SleepDelay(SOCKET_POLL_INTERVAL))
  /\ ApiIdle

SpecConnector == InitConnector /\ [][Next]_vars

\* the runs in which order_send is among the operations called
NextOrders ==
  \/ Next
  \/ \E c \in Callers : OrderSend(c)

InitOrders == InitWith(MaxCalls, 1, "core", {1}, {1}, FALSE)

SpecOrders == InitOrders /\ [][NextOrders]_vars

\* ------------------------------------------------------------------ api
clientUnchanged ==
  UNCHANGED << latest_response, is_running, context, response_timeout,
               response_poll_delay, pullQueue, peerRequests, rpc, spc, pc,
               request, timeout_message, default, start, resp, outcome,
               clock, overlap, callBudget, msgBudget, wire, ncalls, nmsgs,
               nstores, clearMark, checkMark, prevMark, sleep_delay, rclock,
               sendResult, sends, lag, consumed, prevError, order >>

\* parse_timeframe(timeframe)
ParseTimeframe ==
  /\ parsed = NotCalled
  /\ parsed' = parse_timeframe(timeframe)
  /\ UNCHANGED << timeframe, names, info, mapping >>
  /\ clientUnchanged

NextChart == ParseTimeframe

\* parse_timeframe is given any string of at most MaxLen characters
InitChart ==
  /\ InitClient(MaxCalls, MaxMsgs, "core", {1}, {1}, FALSE, 0)
  /\ timeframe \in TimeframeStrings
  /\ parsed = NotCalled
  /\ names = << >>
  /\ info = NoInfo
  /\ mapping = NotCalled

SpecChart == InitChart /\ [][NextChart]_vars

\* symbols(*names), line 93, once _get_response has returned info
Symbols ==
  /\ mapping = NotCalled
  /\ mapping' = Comprehension("Symbol", names, info)
  /\ UNCHANGED << timeframe, parsed, names, info >>
  /\ clientUnchanged

\* signals(*names), line 129, once _get_response has returned info
Signals ==
  /\ mapping = NotCalled
  /\ mapping' = Comprehension("Signal", names, info)
  /\ UNCHANGED << timeframe, parsed, names, info >>
  /\ clientUnchanged

NextSymbols ==
  \/ Symbols
  \/ Signals

\* symbols() and signals() are given any list of at most MaxNames names, and
\* _get_response returns them None or any dict over the names
InitSymbols ==
  /\ InitClient(MaxCalls, MaxMsgs, "core", {1}, {1}, FALSE, 0)
  /\ timeframe = << >>
  /\ parsed = NotCalled
  /\ names \in NameLists
  /\ info \in Infos
  /\ mapping = NotCalled

SpecSymbols == InitSymbols /\ [][NextSymbols]_vars

\* ==================================================================
\* Properties
\* ==================================================================
ErrorKeys == {"error_code", "error_code_description", "error_message"}

\* the call of caller c has ended after reading an envelope (a JSON object)
\* from the mailbox
ConsumedEnvelope(c) ==
  /\ pc[c] = "done"
  /\ resp[c] # NoResponse
  /\ resp[c].body.kind = "object"

\* the value of key k of the envelope caller c read, None when it is missing
Field(c, k) ==
  IF resp[c].body[k] = Absent THEN PyNone ELSE resp[c].body[k]

\* C1: a call that read an envelope whose three error fields are all null
\* or missing raises nothing and returns the value under `response` when the
\* key is there (be it null), and its `default` argument when it is not.
C1_ReturnsResponseOrDefault ==
  \A c \in Callers :
    ( ConsumedEnvelope(c) /\ \A k \in ErrorKeys : Field(c, k) = PyNone )
    => /\ outcome[c].kind = "return"
       /\ outcome[c].value =
            IF resp[c].body.response = Absent THEN default[c]
            ELSE resp[c].body.response

\* a call given default "dflt" has returned the null found under `response`
C1_Witness ==
  /\ ConsumedEnvelope("c1")
  /\ resp["c1"].body.response = PyNone
  /\ default["c1"] = "dflt"
  /\ outcome["c1"].kind = "return"
  /\ outcome["c1"].value = PyNone

\* C2: a call that read an envelope with some error field not null raises
\* MT4Error carrying exactly (error_code, error_code_description,
\* error_message) and returns nothing, whatever `response` or `warning` the
\* envelope also holds.
C2_ErrorTakesPriority ==
  \A c \in Callers :
    ( ConsumedEnvelope(c) /\ \E k \in ErrorKeys : Field(c, k) # PyNone )
    => /\ outcome[c].kind = "MT4Error"
       /\ outcome[c].code = Field(c, "error_code")
       /\ outcome[c].description = Field(c, "error_code_description")
       /\ outcome[c].message = Field(c, "error_message")
       /\ outcome[c].value = PyNone
       /\ outcome[c].printed = PyNone

\* MT4Error raised for an envelope with a null error_code, an error_message
\* and a response payload
C2_Witness ==
  /\ ConsumedEnvelope("c1")
  /\ resp["c1"].body.error_code = PyNone
  /\ resp["c1"].body.error_message = "Invalid price"
  /\ resp["c1"].body.response = "payload"
  /\ outcome["c1"].kind = "MT4Error"

\* caller c is inside _get_response
InCall(c) == pc[c] \in {"send", "loop", "sleep", "check", "read", "decode"}

\* nothing has been stored in the mailbox since caller c cleared it
NoStoreSinceClear(c) == nstores = clearMark[c]

\* the call of caller c got past _send_object (the push socket was open)
ReachedWait(c) == outcome[c].kind # "ZMQError"

HasRead(c) == pc[c] \in {"decode", "done"} /\ resp[c] # NoResponse

\* C4 as stated: the message a call consumes is never one the peer produced
\* for the request of an earlier call.
C4_NeverAnEarlierResponse ==
  \A c \in Callers : HasRead(c) => resp[c].for = request[c]

\* C4 as amended: the message a call consumes was stored in the mailbox
\* after that call's clear (it may still answer an earlier request).
C4_ConsumedStoredAfterClear ==
  \A c \in Callers : HasRead(c) => resp[c].seq > clearMark[c]

\* the second call has consumed a message although the mailbox held one when
\* that call began
C4_Witness ==
  /\ HasRead("c1")
  /\ request["c1"] = 2
  /\ clearMark["c1"] > 0
  /\ resp["c1"].seq > clearMark["c1"]

\* C5 as stated: TimeoutError is raised no later than response_timeout +
\* response_poll_delay after the mailbox clear.
C5_TimeoutBoundFromClear ==
  \A c \in Callers :
    ( pc[c] = "done" /\ outcome[c].kind = "TimeoutError" )
    => clock[c] <= response_timeout + response_poll_delay

\* C5 as amended: TimeoutError is raised no later than response_timeout +
\* response_poll_delay after `start`, which is read once _send_object has
\* returned, hence no later than SOCKET_POLL_TIMEOUT + response_timeout +
\* response_poll_delay after the mailbox clear.
C5_TimeoutBoundFromStart ==
  \A c \in Callers :
    ( pc[c] = "done" /\ outcome[c].kind = "TimeoutError" )
    => /\ clock[c] - start[c] <= response_timeout + response_poll_delay
       /\ clock[c] <= SOCKET_POLL_TIMEOUT + response_timeout + response_poll_delay

\* a call has timed out after a send that waited SOCKET_POLL_TIMEOUT, later
\* than response_timeout + response_poll_delay after its clear
C5_Witness ==
  /\ pc["c1"] = "done"
  /\ outcome["c1"].kind = "TimeoutError"
  /\ start["c1"] = SOCKET_POLL_TIMEOUT
  /\ clock["c1"] > response_timeout + response_poll_delay

\* C6: TimeoutError is never raised before response_timeout has passed: the
\* sleeps of the wait, the only time spent since `start`, add up to at least
\* response_timeout.
C6_NoEarlyTimeout ==
  \A c \in Callers :
    ( pc[c] = "done" /\ outcome[c].kind = "TimeoutError" )
    => /\ clock[c] - start[c] >= response_timeout
       /\ clock[c] >= response_timeout

\* a call has timed out with the largest timeout, having slept longer than it
C6_Witness ==
  /\ pc["c1"] = "done"
  /\ outcome["c1"].kind = "TimeoutError"
  /\ response_timeout = MaxTimeout
  /\ clock["c1"] - start["c1"] > response_timeout

\* C7: the poller thread ends only once shutdown() has cleared
\* _is_running; no message ends it.
C7_PollerEndsOnlyOnStop ==
  rpc \in {"stopped", "crashed"} => ~is_running

\* C8 as stated, for the calls made while the sockets are open: a call ends
\* by returning, by MT4Error or by TimeoutError, whatever JSON the peer sent.
C8_ThreeEndings ==
  \A c \in Callers :
    ( pc[c] = "done" /\ ReachedWait(c) )
    => outcome[c].kind \in {"return", "MT4Error", "TimeoutError"}

\* C8 as amended: a call made while the sockets are open, which reads
\* nothing or a JSON object from the mailbox, ends by returning, by
\* MT4Error or by TimeoutError.
C8_ThreeEndingsForObjects ==
  \A c \in Callers :
    ( /\ pc[c] = "done"
      /\ ReachedWait(c)
      /\ resp[c] # NoResponse => resp[c].body.kind = "object" )
    => outcome[c].kind \in {"return", "MT4Error", "TimeoutError"}

\* a call has returned the default for an envelope that holds only a warning
C8_Witness ==
  /\ ConsumedEnvelope("c1")
  /\ PresentKeys(resp["c1"].body) = {"warning"}
  /\ outcome["c1"].kind = "return"
  /\ outcome["c1"].value = default["c1"]

\* C9 as stated: when two messages are stored between two consecutive tests
\* of line 318, the call consumes the second of them.
C9_ConsumesSecondOfTwo ==
  \A c \in Callers :
    ( HasRead(c) /\ checkMark[c] = prevMark[c] + 2 )
    => resp[c].seq = checkMark[c]

\* C9 as amended: a call consumes the message stored last before its read
\* of line 326; as messages are stored in increasing order, a message
\* overwritten before that read is returned by no call.
C9_ConsumesLastStored ==
  [][ \A c \in Callers :
        ( pc[c] = "read" /\ pc'[c] = "decode" ) => resp'[c].seq = nstores ]_vars

\* the first call has consumed the second of two messages stored between
\* two tests of line 318
C9_Witness ==
  /\ HasRead("c1")
  /\ checkMark["c1"] = prevMark["c1"] + 2
  /\ resp["c1"].seq = 2
  /\ request["c1"] = 1

\* C10: the context is destroyed only after the poller thread has ended, so
\* the thread never polls or receives on a destroyed context.
C10_DestroyAfterJoin ==
  context = "destroyed" => rpc \in {"stopped", "crashed"}

\* shutdown() has returned: the thread stopped and the context is destroyed
C10_Witness ==
  /\ spc = "returned"
  /\ context = "destroyed"
  /\ rpc = "stopped"

\* C11: once shutdown() has cleared _is_running, the poller thread is blocked
\* or asleep for no longer than one socket poll timeout before it sees the
\* flag and ends, so that join() returns within that time.
C11_StopsWithinPollTimeout ==
  ~is_running => rclock <= SOCKET_POLL_TIMEOUT

\* the call of caller c went through a send that failed: the push socket
\* was not writable, or send_json raised ZMQError
SendFailed(c) == sendResult[c] \in {"not writable", "ZMQError"}

\* C12: a call whose send fails, the push socket being not writable within
\* SOCKET_POLL_TIMEOUT or send_json raising ZMQError, raises nothing at the
\* send: the request is not delivered, the call goes on to wait on the
\* mailbox, and it ends with TimeoutError when nothing is stored during the
\* wait; it never ends with ZMQError.
C12_FailedSendIsSilent ==
  \A c \in Callers :
    SendFailed(c)
    => /\ request[c] \notin peerRequests
       /\ pc[c] \in {"loop", "sleep", "check", "read", "decode", "done"}
       /\ pc[c] # "done" => outcome[c] = NoOutcome
       /\ outcome[c].kind # "ZMQError"
       /\ ( pc[c] = "done" /\ NoStoreSinceClear(c) )
          => outcome[c] = Raised("TimeoutError", timeout_message[c])

\* a call whose send_json raised ZMQError has ended with TimeoutError
C12_Witness ==
  /\ sendResult["c1"] = "ZMQError"
  /\ pc["c1"] = "done"
  /\ request["c1"] \notin peerRequests
  /\ outcome["c1"].kind = "TimeoutError"

\* src/client_connector.py line 92: "\n".join(resp["warnings"])
JoinLines(list) == IF list = "[w1, w2]" THEN "w1\nw2" ELSE list

\* the warning text of an envelope
WarningText(body) ==
  IF body.warnings # Absent THEN JoinLines(body.warnings) ELSE body.warning

\* C13: a call that read an envelope with no error field set and with a
\* `warning` string or a `warnings` list prints the warning text, the
\* entries of the list joined by newlines, and returns what it would return
\* for the envelope without the warning.
C13_WarningsAlwaysPrinted ==
  \A c \in Callers :
    ( /\ ConsumedEnvelope(c)
      /\ \A k \in ErrorKeys : Field(c, k) = PyNone
      /\ resp[c].body.warning # Absent \/ resp[c].body.warnings # Absent )
    => /\ outcome[c].kind = "return"
       /\ outcome[c].printed = WarningText(resp[c].body)
       /\ outcome[c].value =
            IF resp[c].body.response = Absent THEN default[c]
            ELSE resp[c].body.response

\* C14 as stated: every message stored in the mailbox is consumed exactly
\* once and by the call whose request it answers: a call consumes only an
\* answer to its own request, no message is read twice, and a message is
\* replaced in the mailbox only once a call has consumed it.
C14_ConsumedOnceByItsCall ==
  /\ \A c \in Callers : HasRead(c) => resp[c].for = request[c]
  /\ \A q \in 1..(nstores - 1) : q \in consumed

\* C14 as amended: no message is returned by two calls, as a call reads a
\* message that no call has read before (the message may answer the request
\* of an earlier call, and a message replaced or cleared before it is read
\* is consumed by no call).
C14_NeverConsumedTwice ==
  [][ \A c \in Callers :
        ( pc[c] = "read" /\ pc'[c] = "decode" )
        => /\ latest_response # NoResponse
           /\ latest_response.seq \notin consumed ]_vars

\* the two calls of a run have each consumed a message of their own, the
\* first and the second stored
C14_Witness ==
  /\ HasRead("c1")
  /\ request["c1"] = 2
  /\ resp["c1"].seq = 2
  /\ consumed = {1, 2}

\* C15: with two caller threads inside _get_response, a call consumes
\* whatever message is stored in the one slot after its own clear, an answer
\* to any request sent through the client; the interleaving in which a call returns
\* the response produced for the other call's request is the witness.
C15_ConsumesAnswerToAnyRequest ==
  \A c \in Callers :
    HasRead(c)
    => /\ resp[c].seq > clearMark[c]
       /\ resp[c].for \in peerRequests
       /\ pc[c] = "done" => outcome[c] = Decode(resp[c], default[c])

\* the second caller has cleared the mailbox and sent its request while the
\* first was waiting, and has returned the response to the first caller's
\* request; the first is still waiting
C15_Witness ==
  /\ pc["c2"] = "done"
  /\ outcome["c2"].kind = "return"
  /\ outcome["c2"].value = "payload"
  /\ request["c2"] = 2
  /\ resp["c2"].for = request["c1"]
  /\ sendResult["c2"] = "sent"
  /\ pc["c1"] \in {"loop", "sleep", "check"}

\* C16: the call that follows a call ended by MT4Error clears the error
\* envelope from the mailbox and sends its own request; the mailbox never
\* holds that envelope again, the call never consumes it, and when it
\* consumes the reply to its own request it returns that reply's response.
C16_ErrorDoesNotPoison ==
  \A c \in Callers :
    ( prevError[c] > 0 /\ pc[c] # "idle" )
    => /\ latest_response = NoResponse \/ latest_response.seq > prevError[c]
       /\ HasRead(c) => resp[c].seq > prevError[c]
       /\ sendResult[c] = "sent" => request[c] \in peerRequests
       /\ ( /\ pc[c] = "done"
            /\ HasRead(c)
            /\ resp[c].for = request[c]
            /\ resp[c].body = Reply )
          => /\ outcome[c].kind = "return"
             /\ outcome[c].value = "payload"

\* the call after a call ended by MT4Error has returned the response to its
\* own request
C16_Witness ==
  /\ prevError["c1"] = 1
  /\ HasRead("c1")
  /\ pc["c1"] = "done"
  /\ resp["c1"].for = request["c1"]
  /\ resp["c1"].seq = 2
  /\ outcome["c1"].kind = "return"
  /\ outcome["c1"].value = "payload"

\* the order types that are neither buy nor sell, and the pending ones
BrokerActions == {"OP_BALANCE", "OP_CREDIT", "OP_REBATE"}
PendingTypes == {"OP_BUYLIMIT", "OP_BUYSTOP", "OP_SELLLIMIT", "OP_SELLSTOP"}

\* caller c takes the step that calls order_send
OrderSendStep(c) ==
  /\ pc[c] \in {"idle", "done"}
  /\ order'[c] # NoOrder
  /\ order'[c] # order[c] \/ pc'[c] # pc[c] \/ outcome'[c] # outcome[c]

\* C17: order_send called with OP_BALANCE, OP_CREDIT or OP_REBATE, or with a
\* pending order type and price None, raises ValueError and leaves the
\* mailbox, the requests sent and the count of calls as they were; called
\* with any other arguments it enters _get_response.
C17_RejectsBeforeTheChannel ==
  [][ \A c \in Callers :
        OrderSendStep(c)
        => IF \/ order'[c].order_type \in BrokerActions
              \/ ( order'[c].order_type \in PendingTypes
                   /\ order'[c].price = PyNone )
           THEN /\ outcome'[c].kind = "ValueError"
                /\ pc'[c] = "done"
                /\ UNCHANGED << latest_response, peerRequests, pullQueue,
                                ncalls, clearMark, sendResult >>
           ELSE /\ pc'[c] = "send"
                /\ outcome'[c] = NoOutcome
                /\ ncalls' = ncalls + 1 ]_vars

\* order_send has rejected a pending order without a price while the
\* mailbox held the message consumed by the call before
C17_Witness ==
  /\ pc["c1"] = "done"
  /\ order["c1"] = [order_type |-> "OP_BUYSTOP", price |-> PyNone]
  /\ outcome["c1"].kind = "ValueError"
  /\ outcome["c1"].message = "Pending orders must specify a price"
  /\ latest_response # NoResponse
  /\ ncalls = 1

\* the unit names of C18: m, h, d, w and mn in any letter case
UnitNames == {"M", "H", "D", "W", "MN"}

\* what C18 says parse_timeframe does with a string
ParseByTheTables(str) ==
  IF str = << "0" >> THEN Member("StandardTimeframe", "PERIOD_CURRENT")
  ELSE LET cuts == { i \in 1..(Len(str) - 1) :
                       /\ \A j \in 1..i : str[j] \in Digits
                       /\ Str(UpperStr(SubSeq(str, i + 1, Len(str))))
                            \in UnitNames }
           name(i) == "PERIOD_" \o Str(UpperStr(SubSeq(str, i + 1, Len(str))))
                        \o Str(SubSeq(str, 1, i))
       IN  IF \E i \in cuts : name(i) \in StandardTimeframe
           THEN Member("StandardTimeframe",
                       name(CHOOSE i \in cuts : name(i) \in StandardTimeframe))
           ELSE IF \E i \in cuts : name(i) \in NonStandardTimeframe
           THEN Member("NonStandardTimeframe",
                       name(CHOOSE i \in cuts : name(i) \in NonStandardTimeframe))
           ELSE [kind |-> "ValueError"]

\* C18: parse_timeframe returns PERIOD_CURRENT for "0", the member
\* PERIOD_<U><n> of StandardTimeframe or NonStandardTimeframe for a string
\* made of a number n and a unit u of m, h, d, w, mn in any letter case, and
\* raises ValueError for every other string, a timeframe followed by more
\* characters included.
C18_ParseAgreesWithTables ==
  parsed # NotCalled
  => IF ParseByTheTables(timeframe).kind = "ValueError"
     THEN parsed.kind = "ValueError"
     ELSE parsed = ParseByTheTables(timeframe)

\* C19: when symbols(*names) or signals(*names) returns, the keys of the
\* mapping are exactly the names asked for, and the value of each name is
\* built from the entry the response holds under that name.
C19_KeysAreTheNames ==
  mapping.kind = "return"
  => /\ DOMAIN mapping.value = { names[i] : i \in 1..Len(names) }
     /\ \A n \in DOMAIN mapping.value :
          /\ n \in DOMAIN info.items
          /\ mapping.value[n].fields = info.items[n]

\* two names were asked for, the response held entries for three, and the
\* mapping returned holds the two
C19_Witness ==
  /\ mapping.kind = "return"
  /\ Len(names) = 2
  /\ names[1] # names[2]
  /\ DOMAIN info.items = SymbolNames
  /\ info.items[names[1]] # info.items[names[2]]
  /\ DOMAIN mapping.value = {names[1], names[2]}

\* the call of caller c has ended by returning or by MT4Error
ConsumedAndEnded(c) ==
  pc[c] = "done" /\ outcome[c].kind \in {"return", "MT4Error"}

\* C20 as stated: when a call returns or raises MT4Error, the mailbox no
\* longer holds the envelope the call consumed.
C20_SlotClearedOnReturn ==
  \A c \in Callers : ConsumedAndEnded(c) => latest_response # resp[c]

\* C20 as amended: a call takes the envelope and leaves it in the mailbox:
\* when the call returns or raises MT4Error the mailbox holds the envelope
\* the call consumed, or one stored after it; the mailbox is cleared by the
\* next call only.
C20_SlotKeepsEnvelope ==
  \A c \in Callers :
    ConsumedAndEnded(c)
    => /\ latest_response # NoResponse
       /\ latest_response.seq >= resp[c].seq
       /\ nstores = resp[c].seq => latest_response = resp[c]

\* a call has raised MT4Error and the mailbox still holds the error envelope
C20_Witness ==
  /\ pc["c1"] = "done"
  /\ outcome["c1"].kind = "MT4Error"
  /\ latest_response = resp["c1"]

\* caller c takes the step that enters _get_response: line 313
EnterStep(c) == pc[c] \in {"idle", "done"} /\ pc'[c] = "send"

\* caller c takes the step in which _send_object runs: line 314
SendStep(c) == pc[c] = "send" /\ pc'[c] # pc[c]

\* C21: a call clears the mailbox, then sends, then makes its first poll
\* check.  The clear is the call's first step and leaves the mailbox empty;
\* at that moment the call's request has not reached the peer and no message
\* answers it, so the clear cannot erase the answer to the call's own
\* request; the send comes next and leads to the wait; no later step of the
\* call changes the mailbox.
C21_ClearThenSendThenWait ==
  [][ \A c \in Callers :
        /\ EnterStep(c)
           => /\ latest_response' = NoResponse
              /\ request'[c] \notin peerRequests'
              /\ \A i \in 1..Len(pullQueue') : pullQueue'[i].for # request'[c]
        /\ SendStep(c)
           => /\ pc'[c] \in {"loop", "done"}
              /\ request'[c] = request[c]
              /\ latest_response' = latest_response
        /\ ( pc'[c] = "loop" /\ pc[c] \notin {"loop", "sleep"} ) => SendStep(c)
        /\ ( InCall(c) /\ pc'[c] # pc[c] ) => latest_response' = latest_response
        /\ ( latest_response' # NoResponse /\ latest_response'.for = request'[c] )
           => latest_response'.seq > clearMark'[c] ]_vars

\* the second call has cleared the response to the first call out of the
\* mailbox, sent its request and returned the response to that request
C21_Witness ==
  /\ pc["c1"] = "done"
  /\ HasRead("c1")
  /\ request["c1"] = 2
  /\ clearMark["c1"] = 1
  /\ resp["c1"].for = 2
  /\ resp["c1"].seq = 2
  /\ sendResult["c1"] = "sent"
  /\ outcome["c1"].kind = "return"

\* C22: once a message has been stored in the mailbox while a single call is
\* waiting, the call sleeps on for one response_poll_delay at most: a sleep
\* that has a message in the mailbox at its end is the last of the wait, the
\* next test of the mailbox ends the wait, and the call does not raise
\* TimeoutError.
C22_StopsWaitingWithinOnePollDelay ==
  \A c \in Callers :
    /\ lag[c] <= response_poll_delay
    /\ ( pc[c] = "sleep" /\ latest_response # NoResponse ) => lag[c] = 0
    /\ ( pc[c] = "loop" /\ lag[c] > 0 ) => latest_response # NoResponse
    /\ ( /\ pc[c] = "done"
         /\ outcome[c].kind = "TimeoutError"
         /\ latest_response # NoResponse )
       => request[c] \notin latest_response.during

\* a message was stored during a sleep of the longest poll delay; the test
\* of line 318 that followed the sleep has ended the wait before the deadline
C22_Witness ==
  /\ pc["c1"] = "check"
  /\ lag["c1"] = response_poll_delay
  /\ response_poll_delay = MaxDelay
  /\ clock["c1"] - start["c1"] <= response_timeout
  /\ latest_response # NoResponse
  /\ request["c1"] \in latest_response.during

\* C23: a call makes one send attempt at most: send_json is called once per
\* call at most, and not at all when the push socket is not writable or
\* closed; the call does not send again while it waits, after a failed send
\* or after a timeout, so the requests handed to the peer are requests of
\* calls started and no more numerous than those calls.
C23_AtMostOneSendPerCall ==
  /\ \A c \in Callers :
       /\ sends[c] <= 1
       /\ sends[c] = 1 <=> sendResult[c] \in {"sent", "ZMQError"}
       /\ pc[c] = "send" => sends[c] = 0
       /\ request[c] \in peerRequests <=> sendResult[c] = "sent"
  /\ peerRequests \subseteq 1..ncalls
  /\ Cardinality(peerRequests) <= ncalls

\* the second call of a run has timed out after a send_json that raised
\* ZMQError, having called send_json once
C23_Witness ==
  /\ pc["c1"] = "done"
  /\ ncalls = 2
  /\ sendResult["c1"] = "ZMQError"
  /\ sends["c1"] = 1
  /\ outcome["c1"].kind = "TimeoutError"
  /\ Cardinality(peerRequests) = 1

\* C24: the mailbox changes in two kinds of step only.  The poller thread
\* stores the message it has received (line 362), which is never the empty
\* value; a caller empties the mailbox in the step that enters _get_response
\* (line 313).  A poll that times out, a recv_json that raises ZMQError, a
\* send, a test of the mailbox, the read of line 326 and the decoding leave
\* it as it was.
C24_OneWriterOneClearer ==
  [][ /\ latest_response' # latest_response
         => \/ /\ latest_response' # NoResponse
               /\ rpc = "recv"
               /\ rpc' = "top"
               /\ nstores' = nstores + 1
               /\ latest_response'.seq = nstores'
               /\ pc' = pc
            \/ /\ latest_response' = NoResponse
               /\ \E c \in Callers : EnterStep(c)
               /\ rpc' = rpc
      /\ \A c \in Callers :
           ( InCall(c) /\ pc'[c] # pc[c] ) => latest_response' = latest_response
    ]_vars

\* the second call has emptied the mailbox that held a stored message, has
\* sent its request and sleeps; the mailbox is still empty
C24_Witness ==
  /\ pc["c1"] = "sleep"
  /\ request["c1"] = 2
  /\ clearMark["c1"] = 1
  /\ nstores = 1
  /\ sendResult["c1"] = "sent"
  /\ latest_response = NoResponse

\* C25: in the connector that takes socket_poll_interval, the poller thread
\* pauses socket_poll_interval milliseconds before each poll, so that a
\* round of its loop lasts socket_poll_interval + socket_poll_timeout
\* milliseconds at most; the time the thread spends in one round after
\* shutdown() has cleared _is_running is within that bound.  Times are in
\* milliseconds here, a tick being 1000 ms.
C25_RoundWithinIntervalPlusTimeout ==
  rclock * 1000 <= SOCKET_POLL_INTERVAL + SOCKET_POLL_TIMEOUT * 1000

\* message m was stored in the mailbox while the call it answers was in
\* progress, hence before that call's deadline
StoredInTime(m) == m.for \in m.during

\* C26: with one call outstanding at a time, a call that consumes a message
\* stored while the call it answers was in progress consumes the response
\* to its own request, whichever call of the sequence it is; and no call
\* ends without consuming a message when the response to its request was
\* stored in time.
C26_OwnResponseWhenInTime ==
  \A c \in Callers :
    /\ ( HasRead(c) /\ StoredInTime(resp[c]) ) => resp[c].for = request[c]
    /\ ( /\ pc[c] = "done"
         /\ resp[c] = NoResponse
         /\ latest_response # NoResponse
         /\ latest_response.for = request[c] )
       => ~ StoredInTime(latest_response)

\* two calls and two messages, one response to each request, each stored
\* during its call: the second call has consumed the response to the second
\* request, the first call had consumed the other
C26_Witness ==
  /\ pc["c1"] = "done"
  /\ HasRead("c1")
  /\ request["c1"] = 2
  /\ resp["c1"].for = 2
  /\ resp["c1"].during = {2}
  /\ peerRequests = {1, 2}
  /\ nmsgs = 2
  /\ nstores = 2
  /\ consumed = {1, 2}

\* C27: a call that has ended after line 326 has decoded the envelope it
\* read there, the local resp: it raised MT4Error exactly when that envelope
\* has an error field, with that envelope's three error fields; otherwise it
\* printed that envelope's warning and returned that envelope's response, or
\* the default; whatever the mailbox holds by then.
C27_DecodesOneSnapshot ==
  \A c \in Callers :
    ( pc[c] = "done" /\ resp[c] # NoResponse /\ IsDict(resp[c]) )
    => LET e == resp[c].body
           o == outcome[c]
       IN  /\ o.kind \in {"MT4Error", "return"}
           /\ o.kind = "MT4Error" <=> HasError(e)
           /\ o.kind = "MT4Error"
              => /\ o.code = Get(e, "error_code")
                 /\ o.description = Get(e, "error_code_description")
                 /\ o.message = Get(e, "error_message")
           /\ o.kind = "return"
              => /\ o.printed = Get(e, "warning")
                 /\ o.value = GetOr(e, "response", default[c])

\* the call read the error envelope stored first; the Receiver Loop stored a
\* reply over it while the call was between line 326 and its end; the call
\* raised MT4Error with the fields of the envelope it had read
C27_Witness ==
  /\ pc["c1"] = "done"
  /\ resp["c1"] # NoResponse
  /\ resp["c1"].seq = 1
  /\ resp["c1"].body = ErrorReply
  /\ latest_response # NoResponse
  /\ latest_response.seq = 2
  /\ latest_response.body = Reply
  /\ request["c1"] \in latest_response.during
  /\ outcome["c1"].kind = "MT4Error"
  /\ outcome["c1"].code = "131"

\* the step of lines 322-323 taken by caller c
FinalCheckStep(c) == pc[c] = "check" /\ pc'[c] # "check"

\* C28: the test of line 322 raises TimeoutError exactly when the mailbox it
\* reads is empty, whatever the elapsed time: with a message there, the one
\* stored after the deadline test ended the loop included, the call goes on
\* to read and decode it; a TimeoutError is raised by that step only; and a
\* call that has ended with TimeoutError has read no message.
C28_TimeoutOnlyOnEmptyMailbox ==
  [][ \A c \in Callers :
        /\ FinalCheckStep(c)
           => IF latest_response = NoResponse
              THEN /\ pc'[c] = "done"
                   /\ outcome'[c] = TimeoutError(timeout_message[c])
              ELSE /\ pc'[c] = "read"
                   /\ outcome'[c] = outcome[c]
                   /\ latest_response' = latest_response
        /\ ( outcome'[c].kind = "TimeoutError"
             /\ outcome[c].kind # "TimeoutError" )
           => FinalCheckStep(c) /\ latest_response = NoResponse
        /\ ( pc'[c] = "done" /\ outcome'[c].kind = "TimeoutError" )
           => resp'[c] = NoResponse
    ]_vars

\* the deadline test ended the loop with the mailbox empty, the Receiver Loop
\* stored a message before line 322 ran, and the call is about to read it
C28_Witness ==
  /\ pc["c1"] = "read"
  /\ clock["c1"] - start["c1"] > response_timeout
  /\ latest_response # NoResponse
  /\ latest_response.seq > checkMark["c1"]
  /\ lag["c1"] = 0
  /\ outcome["c1"].kind # "TimeoutError"

\* C29: with a single caller, the mailbox is non-empty from the first store
\* after a call's clear until the next call's clear, JSON null messages
\* received in between included; so the value the call reads at line 326 and
\* dereferences at line 327 is an envelope, and no call ends with the
\* AttributeError of None.get.
C29_SlotStaysNonEmpty ==
  \A c \in Callers :
    /\ ( pc[c] # "idle" /\ nstores > clearMark[c] )
       => latest_response # NoResponse
    /\ pc[c] = "read" => latest_response # NoResponse
    /\ pc[c] = "decode"
       => /\ resp[c] # NoResponse
          /\ latest_response # NoResponse
    /\ outcome[c].kind # "AttributeError"
    /\ ( pc[c] = "done" /\ outcome[c].kind \in {"return", "MT4Error"} )
       => /\ resp[c] # NoResponse
          /\ latest_response # NoResponse

\* the peer has pushed two messages and the Receiver Loop has taken both and
\* is still running: one was stored, the other was a JSON null and was
\* ignored; the call holds the stored envelope
C29_Witness ==
  /\ pc["c1"] = "decode"
  /\ resp["c1"] # NoResponse
  /\ latest_response = resp["c1"]
  /\ nmsgs = 2
  /\ nstores = 1
  /\ pullQueue = << >>
  /\ rpc \in {"top", "poll"}
  /\ is_running
  /\ context = "open"

\* C30: once shutdown() has returned (the context is destroyed), no step
\* stores a message: the Receiver Loop has ended and takes no further step,
\* the pull socket holds nothing, and the mailbox changes only by the clear
\* of a later call, whatever the peer pushes; _is_running, once False, stays
\* False; and the Receiver Loop that has tested the cleared flag polls no
\* more.
C30_NoStoreAfterShutdown ==
  [][ /\ context = "destroyed"
         => /\ nstores' = nstores
            /\ rpc \in {"stopped", "crashed"}
            /\ rpc' = rpc
            /\ pullQueue' = << >>
            /\ context' = "destroyed"
            /\ latest_response' # latest_response
               => /\ latest_response' = NoResponse
                  /\ \E c \in Callers : EnterStep(c)
      /\ ~is_running => ~is_running'
      /\ ( rpc = "top" /\ ~is_running ) => rpc' \in {"top", "stopped"}
      /\ rpc = "stopped" => rpc' = "stopped"
    ]_vars

\* shutdown() has returned after a call that consumed the one message
\* stored; the peer has pushed a second message, which was never stored; a
\* call made since has cleared the mailbox and failed on the closed socket
C30_Witness ==
  /\ spc = "returned"
  /\ context = "destroyed"
  /\ rpc = "stopped"
  /\ ~is_running
  /\ nmsgs = 2
  /\ nstores = 1
  /\ consumed = {1}
  /\ pc["c1"] = "done"
  /\ request["c1"] = 2
  /\ sendResult["c1"] = "closed"
  /\ latest_response = NoResponse

====
